---- MODULE Spec2Model ----
(***************************************************************************)
(* Model of the generic in-memory cache of pokemon-api-proxy               *)
(* (src/src/cache.rs): InmemoryCache<T> with its entry mapping, its        *)
(* statistics block, the configuration and the monotonic clock read by     *)
(* CacheEntry::new and CacheEntry::is_expired.                             *)
(*                                                                         *)
(* Every public operation takes the store mutex for its whole body and     *)
(* updates the statistics while still holding it, so one operation is one  *)
(* atomic action in Spec, SpecQuery, SpecTask and SpecPoison; SpecConc     *)
(* interleaves the callers at the granularity of the two mutexes.          *)
(* SpecProxy is the proxy of src/src/main.rs: its two handlers, its own    *)
(* cache and the upstream they fetch from.                                 *)
(***************************************************************************)
EXTENDS Integers, Sequences, FiniteSets, TLC

\* ---------------------------------------------------------------- bounds
MaxCapacity == 2
MaxExpiration == 1
MaxTime == 2
MaxOps == 4
\* the counted operations after which the interleaved callers start no call
MaxConcOps == 1

\* ------------------------------------------------------------ input sets
Keys == {"", "1", "2", "3"}
Values == {"A", "B"}
CacheTypes == {"memory", "redis"}

\* Option::None and the unit return value
None == "None"
Unit == "()"

VARIABLES
    store,      \* HashMap<String, CacheEntry<T>>: function on the present keys
    stats,      \* CacheStats
    config,     \* CacheConfig, immutable after construction
    now,        \* the value Instant::now() returns
    poisoned,   \* which of the two mutexes fail to lock
    last,       \* the most recent call: operation, arguments, return value
    written,    \* per stored key, the value given to the insert that stored it
    task,       \* where the periodic cleanup task stands in its loop
    pc,         \* per caller thread, the call it is in and the steps left
    store_lock, \* the thread holding the store mutex, or None
    stats_lock, \* the thread holding the statistics mutex, or None
    proxy_store, \* main.rs: the HashMap<String, Pokemon> of its own cache
    handler     \* main.rs: per request in flight, where its handler stands

\* the state of the cache of cache.rs
cacheVars == <<store, stats, config, now, poisoned, last, written,
               task, pc, store_lock, stats_lock>>

\* the state of the proxy of main.rs
proxyVars == <<proxy_store, handler>>

vars == <<store, stats, config, now, poisoned, last, written,
          task, pc, store_lock, stats_lock, proxy_store, handler>>

\* the requests the proxy serves at a time
Requests == {"r1", "r2"}

\* a request slot no request has used yet; Option values are sets of at most
\* one element
NoRequest ==
    [route |-> "none", id |-> 0, at |-> "idle", contacted |-> FALSE,
     fetched |-> {}, status |-> 0, body |-> {}]

\* the threads of the interleaved specification: two callers and the task
\* that start_cleanup_task runs
Threads == {"t1", "t2", "task"}

\* a thread that is in no call
Idle == [op |-> "idle"]

\* ------------------------------------------------------------ CacheEntry
\* a new entry that starts its access_count at 0
CacheEntryNewZero(value, t) ==
    [value |-> value, created_at |-> t, access_count |-> 0]

\* CacheEntry::new: created_at is Instant::now(), access_count is 1
CacheEntryNew(value, t) ==
    [value |-> value, created_at |-> t, access_count |-> 1]

\* the comparison with >= for >: an entry aged exactly the TTL is expired
IsExpiredAtTtl(entry, t, expiration_duration) ==
    t - entry.created_at >= expiration_duration

\* created_at.elapsed() > expiration_duration
IsExpired(entry, t, expiration_duration) ==
    t - entry.created_at > expiration_duration

\* access without the access_count increment
AccessNoCount(entry) == entry

\* an access that also restarts the entry's age
AccessRefreshes(entry) ==
    [entry EXCEPT !.access_count = @ + 1, !.created_at = now]

\* CacheEntry::access: the entry after the read (the clone of value is returned)
Access(entry) ==
    [entry EXCEPT !.access_count = @ + 1]

\* ------------------------------------------------------------ CacheStats
StatsDefault ==
    [hits |-> 0, misses |-> 0, inserts |-> 0, removes |-> 0, cleanups |-> 0]

\* an f64 quotient as the fraction in lowest terms; 0/0 is NaN
RECURSIVE Gcd(_, _)
Gcd(a, b) == IF b = 0 THEN a ELSE Gcd(b, a % b)

NaN == [num |-> 0, den |-> 0]

Quotient(n, d) ==
    IF d = 0 THEN NaN
    ELSE [num |-> n \div Gcd(n, d), den |-> d \div Gcd(n, d)]

\* the f64 0.0
Zero == [num |-> 0, den |-> 1]

\* the quotient of hits by misses, with no test for an idle store
HitRateOverMisses(st) ==
    Quotient(st.hits, st.misses)

\* CacheStats::hit_rate
CacheStatsHitRate(st) ==
    IF st.hits + st.misses = 0
    THEN Zero
    ELSE Quotient(st.hits, st.hits + st.misses)

\* the reset left out
ClearStatsKept(st) == st

\* if let Ok(mut stats) = self.stats.lock() { *stats = CacheStats::default(); }
ClearStats(st) ==
    IF poisoned.stats THEN st ELSE StatsDefault

\* the update on a guard recovered from the poisoned mutex (into_inner)
StatsAddRecovering(st, field, n) ==
    [st EXCEPT ![field] = @ + n]

\* if let Ok(mut stats) = self.stats.lock() { stats.<field> += n; }
StatsAdd(st, field, n) ==
    IF poisoned.stats THEN st ELSE [st EXCEPT ![field] = @ + n]

\* --------------------------------------------------------------- HashMap
EmptyStore == [k \in {} |-> None]

MapLen(s) == Cardinality(DOMAIN s)

\* a lookup in place of the removal: the entry stays
MapRemoveKeeps(s, k) == s

\* HashMap::remove
MapRemove(s, k) == [j \in DOMAIN s \ {k} |-> s[j]]

\* entry(k).or_insert(entry): an existing entry is kept
MapInsertKeepsOld(s, k, entry) ==
    [j \in DOMAIN s \cup {k} |-> IF j = k /\ k \notin DOMAIN s THEN entry ELSE s[j]]

\* HashMap::insert: the entry under k is replaced
MapInsert(s, k, entry) ==
    [j \in DOMAIN s \cup {k} |-> IF j = k THEN entry ELSE s[j]]

\* no key is taken for empty
KeyIsEmptyNever(k) == FALSE

\* key.is_empty()
KeyIsEmpty(k) == k = ""

\* Duration::from_secs(self.config.expiration as u64)
ExpirationDuration == config.expiration

\* ------------------------------------------------------------- evict_lru
\* the comparison without its then_with tie-break
EntryLeNoTieBreak(a, b) ==
    a.created_at <= b.created_at

\* a.created_at.cmp(b.created_at).then_with(|| a.access_count.cmp(b.access_count))
\* is Less or Equal
EntryLe(a, b) ==
    \/ a.created_at < b.created_at
    \/ a.created_at = b.created_at /\ a.access_count <= b.access_count

\* min_by over the map's iteration order: any entry no other entry is below
LruKeys(s) ==
    {k \in DOMAIN s : \A j \in DOMAIN s : EntryLe(s[k], s[j])}

\* the keys evict_lru may remove: none when below capacity or when empty
EvictChoices(s) ==
    IF MapLen(s) < config.max_size THEN {None}
    ELSE IF DOMAIN s = {} THEN {None}
    ELSE LruKeys(s)

\* the test without its !store.contains_key(&key)
NeedsEvictionAnyKey(s, k) ==
    MapLen(s) >= config.max_size

\* insert's test before it calls evict_lru
NeedsEviction(s, k) ==
    MapLen(s) >= config.max_size /\ k \notin DOMAIN s

\* ------------------------------------------------------------- the calls
Call(op, key, value, ret) ==
    [op |-> op, key |-> key, value |-> value, ret |-> ret]

StatsTotal ==
    stats.hits + stats.misses + stats.inserts + stats.removes + stats.cleanups

OpsLeft ==
    /\ StatsTotal < MaxOps
    /\ \A k \in DOMAIN store : store[k].access_count <= MaxOps

\* the value the latest successful insert stored for each key still present
WrittenAfter(s, k, v) ==
    [j \in Keys |-> IF j \notin DOMAIN s THEN None
                    ELSE IF j = k THEN v
                    ELSE written[j]]

Init ==
    /\ store = EmptyStore
    /\ stats = StatsDefault
    /\ config \in [type : CacheTypes,
                   max_size : 0..MaxCapacity,
                   expiration : 0..MaxExpiration]
    /\ now = 0
    /\ poisoned = [store |-> FALSE, stats |-> FALSE]
    /\ last = Call("new", None, None, Unit)
    /\ written = [k \in Keys |-> None]
    /\ task = "sleep"
    /\ pc = [t \in Threads |-> Idle]
    /\ store_lock = None
    /\ stats_lock = None
    /\ proxy_store = EmptyStore
    /\ handler = [r \in Requests |-> NoRequest]

\* a get that serves nothing unless the configured kind is "memory"
GetValueIfEnabled(s, k, t) ==
    IF KeyIsEmpty(k) \/ poisoned.store \/ config.type # "memory" THEN None
    ELSE IF k \notin DOMAIN s THEN None
    ELSE IF IsExpired(s[k], t, ExpirationDuration) THEN None
    ELSE s[k].value

\* what get returns: the clone of a present, unexpired entry's value
GetValue(s, k, t) ==
    IF KeyIsEmpty(k) \/ poisoned.store THEN None
    ELSE IF k \notin DOMAIN s THEN None
    ELSE IF IsExpired(s[k], t, ExpirationDuration) THEN None
    ELSE s[k].value

\* InmemoryCache::get
Get(k) ==
    /\ OpsLeft
    /\ UNCHANGED <<config, now, poisoned, task, pc, store_lock, stats_lock, proxyVars>>
    /\ last' = Call("get", k, None, GetValue(store, k, now))
    /\ IF KeyIsEmpty(k) \/ poisoned.store
       THEN UNCHANGED <<store, stats, written>>
       ELSE IF k \in DOMAIN store
       THEN IF IsExpired(store[k], now, ExpirationDuration)
            THEN /\ store' = MapRemove(store, k)
                 /\ stats' = StatsAdd(stats, "misses", 1)
                 /\ written' = WrittenAfter(store', None, None)
            ELSE /\ store' = [store EXCEPT ![k] = Access(@)]
                 /\ stats' = StatsAdd(stats, "hits", 1)
                 /\ UNCHANGED written
       ELSE /\ stats' = StatsAdd(stats, "misses", 1)
            /\ UNCHANGED <<store, written>>

\* InmemoryCache::insert, with the evict_lru call it makes
Insert(k, v) ==
    /\ OpsLeft
    /\ UNCHANGED <<config, now, poisoned, task, pc, store_lock, stats_lock, proxyVars>>
    /\ IF KeyIsEmpty(k)
       THEN /\ last' = Call("insert", k, v, "InvalidKey")
            /\ UNCHANGED <<store, stats, written>>
       ELSE IF poisoned.store
       THEN /\ last' = Call("insert", k, v, "LockError")
            /\ UNCHANGED <<store, stats, written>>
       ELSE \E victim \in (IF NeedsEviction(store, k)
                           THEN EvictChoices(store) ELSE {None}) :
            LET evicted == IF victim = None THEN store
                           ELSE MapRemove(store, victim)
                st1 == IF victim = None THEN stats
                       ELSE StatsAdd(stats, "removes", 1)
            IN  /\ store' = MapInsert(evicted, k, CacheEntryNew(v, now))
                /\ stats' = StatsAdd(st1, "inserts", 1)
                /\ last' = Call("insert", k, v, "Ok")
                /\ written' = WrittenAfter(store', k, v)

\* InmemoryCache::remove
Remove(k) ==
    /\ OpsLeft
    /\ UNCHANGED <<config, now, poisoned, task, pc, store_lock, stats_lock, proxyVars>>
    /\ IF KeyIsEmpty(k) \/ poisoned.store \/ k \notin DOMAIN store
       THEN /\ last' = Call("remove", k, None, None)
            /\ UNCHANGED <<store, stats, written>>
       ELSE /\ store' = MapRemove(store, k)
            /\ stats' = StatsAdd(stats, "removes", 1)
            /\ last' = Call("remove", k, None, store[k].value)
            /\ written' = WrittenAfter(store', None, None)

\* InmemoryCache::clear
Clear ==
    /\ UNCHANGED <<config, now, poisoned, task, pc, store_lock, stats_lock, proxyVars>>
    /\ last' = Call("clear", None, None, Unit)
    /\ IF poisoned.store
       THEN UNCHANGED <<store, stats, written>>
       ELSE /\ store' = EmptyStore
            /\ stats' = ClearStats(stats)
            /\ written' = WrittenAfter(store', None, None)

\* InmemoryCache::size
Size ==
    /\ UNCHANGED <<store, stats, config, now, poisoned, written,
                   task, pc, store_lock, stats_lock, proxyVars>>
    /\ last' = Call("size", None, None,
                    IF poisoned.store THEN 0 ELSE MapLen(store))

\* InmemoryCache::hit_rate
HitRate ==
    /\ UNCHANGED <<store, stats, config, now, poisoned, written,
                   task, pc, store_lock, stats_lock, proxyVars>>
    /\ last' = Call("hit_rate", None, None,
                    IF poisoned.stats THEN Zero ELSE CacheStatsHitRate(stats))

\* InmemoryCache::is_enabled
IsEnabled ==
    /\ UNCHANGED <<store, stats, config, now, poisoned, written,
                   task, pc, store_lock, stats_lock, proxyVars>>
    /\ last' = Call("is_enabled", None, None, config.type = "memory")

\* a sweep that spares the entries that were read since their insert
ExpiredKeysUnread(s, t) ==
    {k \in DOMAIN s : s[k].access_count <= 1
                      /\ IsExpired(s[k], t, ExpirationDuration)}

\* the keys cleanup_expired_entries collects
ExpiredKeys(s, t) ==
    {k \in DOMAIN s : IsExpired(s[k], t, ExpirationDuration)}

\* the update without its expired_count > 0 test
CleanupStatsAlways(st, expired_count) ==
    StatsAdd(StatsAdd(st, "cleanups", 1), "removes", expired_count)

\* the update on a block reset as in clear
CleanupStatsReset(st, expired_count) ==
    IF expired_count > 0
    THEN StatsAdd(StatsAdd(StatsDefault, "cleanups", 1), "removes",
                  expired_count)
    ELSE st

\* the statistics update of cleanup_expired_entries
CleanupStats(st, expired_count) ==
    IF expired_count > 0
    THEN StatsAdd(StatsAdd(st, "cleanups", 1), "removes", expired_count)
    ELSE st

\* InmemoryCache::cleanup_expired_entries
CleanupExpiredEntries ==
    /\ last' = Call("cleanup_expired", None, None, Unit)
    /\ IF poisoned.store
       THEN UNCHANGED <<store, stats, written>>
       ELSE LET expired_keys == ExpiredKeys(store, now)
            IN  /\ store' = [j \in DOMAIN store \ expired_keys |-> store[j]]
                /\ stats' = CleanupStats(stats, Cardinality(expired_keys))
                /\ written' = WrittenAfter(store', None, None)

\* InmemoryCache::cleanup_expired, which is cleanup_expired_entries
CleanupExpired ==
    /\ OpsLeft
    /\ UNCHANGED <<config, now, poisoned, task, pc, store_lock, stats_lock, proxyVars>>
    /\ CleanupExpiredEntries

\* the monotonic clock advances between two calls
Tick ==
    /\ now < MaxTime
    /\ now' = now + 1
    /\ UNCHANGED <<store, stats, config, poisoned, last, written,
                   task, pc, store_lock, stats_lock, proxyVars>>

Next ==
    \/ \E k \in Keys : Get(k)
    \/ \E k \in Keys, v \in Values : Insert(k, v)
    \/ \E k \in Keys : Remove(k)
    \/ Clear
    \/ Size
    \/ HitRate
    \/ IsEnabled
    \/ CleanupExpired
    \/ Tick

Spec == Init /\ [][Next]_vars

\* ------------------------------------------------------ the query methods
\* the inputs of the specification with every query method
QueryKeys == {"", "1", "2"}
QueryValues == {"A"}

\* a lookup that passes over the entries older than the TTL
MapContainsLiveKey(s, k) ==
    k \in DOMAIN s /\ ~IsExpired(s[k], now, ExpirationDuration)

\* HashMap::contains_key
MapContainsKey(s, k) == k \in DOMAIN s

\* store.keys().cloned().collect(): the keys, in the map's iteration order,
\* which a set stands for
MapKeys(s) == DOMAIN s

\* the copy with hits and misses taken from each other's field
StatsCopySwapped(st) ==
    [hits |-> st.misses, misses |-> st.hits, inserts |-> st.inserts,
     removes |-> st.removes, cleanups |-> st.cleanups]

\* CacheStats { hits: stats.hits, misses: stats.misses, ... }
StatsCopy(st) ==
    [hits |-> st.hits, misses |-> st.misses, inserts |-> st.inserts,
     removes |-> st.removes, cleanups |-> st.cleanups]

\* InmemoryCache::contains_key
ContainsKey(k) ==
    /\ UNCHANGED <<store, stats, config, now, poisoned, written,
                   task, pc, store_lock, stats_lock, proxyVars>>
    /\ last' = Call("contains_key", k, None,
                    IF poisoned.store THEN FALSE ELSE MapContainsKey(store, k))

\* InmemoryCache::keys
KeysOf ==
    /\ UNCHANGED <<store, stats, config, now, poisoned, written,
                   task, pc, store_lock, stats_lock, proxyVars>>
    /\ last' = Call("keys", None, None,
                    IF poisoned.store THEN {} ELSE MapKeys(store))

\* InmemoryCache::stats
StatsOf ==
    /\ UNCHANGED <<store, stats, config, now, poisoned, written,
                   task, pc, store_lock, stats_lock, proxyVars>>
    /\ last' = Call("stats", None, None,
                    IF poisoned.stats THEN None ELSE StatsCopy(stats))

\* InmemoryCache::config
ConfigOf ==
    /\ UNCHANGED <<store, stats, config, now, poisoned, written,
                   task, pc, store_lock, stats_lock, proxyVars>>
    /\ last' = Call("config", None, None, config)

NextQuery ==
    \/ \E k \in QueryKeys : Get(k)
    \/ \E k \in QueryKeys, v \in QueryValues : Insert(k, v)
    \/ \E k \in QueryKeys : Remove(k)
    \/ Clear
    \/ CleanupExpired
    \/ Tick
    \/ Size
    \/ HitRate
    \/ IsEnabled
    \/ \E k \in QueryKeys : ContainsKey(k)
    \/ KeysOf
    \/ StatsOf
    \/ ConfigOf

SpecQuery == Init /\ [][NextQuery]_vars

\* ------------------------------------------------- periodic cleanup task
\* the inputs of the callers that run beside the task
TaskKeys == {"1", "2"}
TaskValues == {"A"}

\* a task that returns after its first sweep
TaskReturns == "done"

\* loop { ... }: after cache.cleanup_expired() the task is back at
\* interval.tick().await
TaskLoops == "sleep"

\* interval.tick().await completes (at once the first time, then once per
\* period; the period is not measured in the clock's units here)
TaskWake ==
    /\ task = "sleep"
    /\ task' = "run"
    /\ UNCHANGED <<store, stats, config, now, poisoned, last, written,
                   pc, store_lock, stats_lock, proxyVars>>

\* cache.cleanup_expired() in the loop of start_cleanup_task
TaskCleanup ==
    /\ task = "run"
    /\ task' = TaskLoops
    /\ CleanupExpiredEntries
    /\ UNCHANGED <<config, now, poisoned, pc, store_lock, stats_lock, proxyVars>>

NextTask ==
    \/ \E k \in TaskKeys : Get(k)
    \/ \E k \in TaskKeys, v \in TaskValues : Insert(k, v)
    \/ \E k \in TaskKeys : Remove(k)
    \/ Tick
    \/ TaskWake
    \/ TaskCleanup

\* the runtime keeps polling the spawned task and its interval keeps firing
SpecTask ==
    /\ Init /\ [][NextTask]_vars
    /\ WF_vars(TaskWake) /\ WF_vars(TaskCleanup)

\* ------------------------------------------------------- poisoned mutexes
\* the inputs of the specification with lock failures
PoisonKeys == {"", "1"}
PoisonValues == {"A"}

\* a get that hits and whose value.clone() panics: hits and access_count are
\* already updated, and the unwinding drops the store guard, which poisons
\* the store mutex
PanicInClone(k) ==
    /\ OpsLeft
    /\ ~KeyIsEmpty(k) /\ ~poisoned.store
    /\ k \in DOMAIN store
    /\ ~IsExpired(store[k], now, ExpirationDuration)
    /\ store' = [store EXCEPT ![k] = Access(@)]
    /\ stats' = StatsAdd(stats, "hits", 1)
    /\ poisoned' = [poisoned EXCEPT !.store = TRUE]
    /\ last' = Call("get", k, None, "panic")
    /\ UNCHANGED <<config, now, written, task, pc, store_lock, stats_lock, proxyVars>>

\* a hit_rate whose self.hits + self.misses overflows u64 in a build with
\* overflow checks: the panic drops the statistics guard, the only guard
\* hit_rate holds, and poisons the statistics mutex alone (the counters are
\* kept small here, the overflow is taken as given)
PanicInHitRate ==
    /\ ~poisoned.stats
    /\ poisoned' = [poisoned EXCEPT !.stats = TRUE]
    /\ last' = Call("hit_rate", None, None, "panic")
    /\ UNCHANGED <<store, stats, config, now, written,
                   task, pc, store_lock, stats_lock, proxyVars>>

NextPoison ==
    \/ \E k \in PoisonKeys : Get(k)
    \/ \E k \in PoisonKeys, v \in PoisonValues : Insert(k, v)
    \/ \E k \in PoisonKeys : Remove(k)
    \/ Clear
    \/ Size
    \/ HitRate
    \/ CleanupExpired
    \/ Tick
    \/ \E k \in PoisonKeys : PanicInClone(k)
    \/ PanicInHitRate

SpecPoison == Init /\ [][NextPoison]_vars

\* ------------------------------------------- interleaved callers and locks
\* the inputs of the interleaved specification
ConcKeys == {"", "1", "2"}
ConcValues == {"A"}

\* the calls a thread may start: a caller any operation of the store, the
\* periodic task cache.cleanup_expired() alone
CallsOf(t) ==
    IF t = "task" THEN {<<"cleanup_expired", None, None>>}
    ELSE {<<op, k, None>> : op \in {"get", "remove", "contains_key"},
                            k \in ConcKeys}
         \cup {<<"insert", k, v>> : k \in ConcKeys, v \in ConcValues}
         \cup {<<op, None, None>> :
                  op \in {"clear", "size", "keys", "hit_rate", "stats",
                          "cleanup_expired"}}

\* hit_rate and stats reading the counters with the store locked as well
StatsReaderPlanSized == <<"lock_stats", "lock_store", "read", "unlock_store">>

\* hit_rate and stats: self.stats.lock(), the read, the guard dropped
StatsReaderPlan == <<"lock_stats", "read">>

\* the steps a call starts with: none left for an empty key, the statistics
\* lock alone for hit_rate and stats, the store lock for the others
FirstPlan(op, k) ==
    IF op \in {"get", "insert", "remove"} /\ KeyIsEmpty(k) THEN <<>>
    ELSE IF op \in {"hit_rate", "stats"} THEN StatsReaderPlan
    ELSE <<"lock_store", "map">>

\* the statistics counted once the store guard is dropped
CountAfterReturn == <<"unlock_store", "lock_stats", "stat">>

\* the statistics section of a mapping operation and the end of the call:
\* if let Ok(mut stats) = self.stats.lock() { ... } under the store guard
CountThenReturn == <<"lock_stats", "stat", "unlock_store">>

\* the statistics guard kept by the thread after its update
StatsGuardKept(t) == t

\* the statistics guard goes out of scope at the end of its if-let block
StatsGuardDropped(t) == None

\* one update of the counters under the statistics guard
ApplyUpd(st, upd, n) ==
    CASE upd = "reset" -> ClearStats(st)
      [] upd = "cleanup" -> CleanupStats(st, n)
      [] OTHER -> StatsAdd(st, upd, 1)

\* the thread's call goes on with c, or returns when no step is left (what
\* it returns is not kept: last stays the call of the construction)
Continue(t, c) ==
    /\ pc' = [pc EXCEPT ![t] = IF c.plan = <<>> THEN Idle ELSE c]
    /\ UNCHANGED last

InCall(t) == pc[t].op # "idle"

\* the step the thread is at
At(t, step) == InCall(t) /\ pc[t].plan # <<>> /\ Head(pc[t].plan) = step

\* the call with its next step done
Stepped(t) == [pc[t] EXCEPT !.plan = Tail(@)]

\* a thread calls an operation (s0, st0 and t0 are what the call will have
\* found under the store lock and read from the clock: nothing yet)
Begin(t, call) ==
    /\ ~InCall(t)
    /\ StatsTotal < MaxConcOps
    /\ Continue(t, [op |-> call[1], key |-> call[2], value |-> call[3],
                    plan |-> FirstPlan(call[1], call[2]),
                    upd |-> None, n |-> 0,
                    s0 |-> EmptyStore, st0 |-> StatsDefault, t0 |-> 0])
    /\ UNCHANGED <<store, stats, config, now, poisoned, written, task,
                   store_lock, stats_lock, proxyVars>>

\* self.store.lock() returns the guard: the mutex was free; s0 and st0 keep
\* the mapping and the counters the call finds
LockStore(t) ==
    /\ At(t, "lock_store")
    /\ store_lock = None
    /\ store_lock' = t
    /\ Continue(t, [Stepped(t) EXCEPT !.s0 = store, !.st0 = stats])
    /\ UNCHANGED <<store, stats, config, now, poisoned, written, task,
                   stats_lock, proxyVars>>

\* self.stats.lock() returns the guard: the mutex was free
LockStats(t) ==
    /\ At(t, "lock_stats")
    /\ stats_lock = None
    /\ stats_lock' = t
    /\ Continue(t, Stepped(t))
    /\ UNCHANGED <<store, stats, config, now, poisoned, written, task,
                   store_lock, proxyVars>>

\* the first step under the store guard: the call looks its key up, or
\* scans, and does what removal it has to do
MapStep(t) ==
    LET c == Stepped(t)
        k == c.key
    IN
    /\ At(t, "map")
    /\ UNCHANGED <<stats, config, now, poisoned, task, store_lock, stats_lock, proxyVars>>
    /\ CASE c.op = "get" ->
              IF k \notin DOMAIN store
              THEN /\ UNCHANGED <<store, written>>
                   /\ Continue(t, [c EXCEPT !.upd = "misses", !.t0 = now,
                                            !.plan = CountThenReturn])
              ELSE IF IsExpired(store[k], now, ExpirationDuration)
              THEN /\ store' = MapRemove(store, k)
                   /\ written' = WrittenAfter(store', None, None)
                   /\ Continue(t, [c EXCEPT !.upd = "misses", !.t0 = now,
                                            !.plan = CountThenReturn])
              ELSE /\ UNCHANGED <<store, written>>
                   /\ Continue(t, [c EXCEPT !.upd = "hits", !.t0 = now,
                                            !.plan = <<"lock_stats", "stat",
                                                       "access",
                                                       "unlock_store">>])
         [] c.op = "insert" ->
              \E victim \in (IF NeedsEviction(store, k)
                             THEN EvictChoices(store) ELSE {None}) :
                 IF victim = None
                 THEN /\ UNCHANGED <<store, written>>
                      /\ Continue(t, [c EXCEPT !.plan = <<"store">>
                                                        \o CountThenReturn])
                 ELSE /\ store' = MapRemove(store, victim)
                      /\ written' = WrittenAfter(store', None, None)
                      /\ Continue(t, [c EXCEPT !.upd = "removes",
                                               !.plan = <<"lock_stats", "stat",
                                                          "store">>
                                                        \o CountThenReturn])
         [] c.op = "remove" ->
              IF k \in DOMAIN store
              THEN /\ store' = MapRemove(store, k)
                   /\ written' = WrittenAfter(store', None, None)
                   /\ Continue(t, [c EXCEPT !.upd = "removes",
                                            !.plan = CountThenReturn])
              ELSE /\ UNCHANGED <<store, written>>
                   /\ Continue(t, [c EXCEPT !.plan = <<"unlock_store">>])
         [] c.op = "clear" ->
              /\ store' = EmptyStore
              /\ written' = WrittenAfter(store', None, None)
              /\ Continue(t, [c EXCEPT !.upd = "reset",
                                       !.plan = CountThenReturn])
         [] c.op = "cleanup_expired" ->
              LET expired_keys == ExpiredKeys(store, now)
                  expired_count == Cardinality(expired_keys)
              IN  /\ store' = [j \in DOMAIN store \ expired_keys |-> store[j]]
                  /\ written' = WrittenAfter(store', None, None)
                  /\ Continue(t, [c EXCEPT
                        !.upd = "cleanup", !.n = expired_count, !.t0 = now,
                        !.plan = IF expired_count > 0 THEN CountThenReturn
                                 ELSE <<"unlock_store">>])
         [] OTHER ->
              /\ UNCHANGED <<store, written>>
              /\ Continue(t, [c EXCEPT !.plan = <<"unlock_store">>])

\* insert: store.insert(key.clone(), CacheEntry::new(value)), after the
\* eviction if there was one
StoreStep(t) ==
    LET c == Stepped(t) IN
    /\ At(t, "store")
    /\ store' = MapInsert(store, c.key, CacheEntryNew(c.value, now))
    /\ written' = WrittenAfter(store', c.key, c.value)
    /\ Continue(t, [c EXCEPT !.upd = "inserts", !.t0 = now])
    /\ UNCHANGED <<stats, config, now, poisoned, task, store_lock, stats_lock, proxyVars>>

\* get on a hit: Some(entry.access()), after hits is counted
AccessStep(t) ==
    LET c == Stepped(t) IN
    /\ At(t, "access")
    /\ store' = [store EXCEPT ![c.key] = Access(@)]
    /\ Continue(t, c)
    /\ UNCHANGED <<stats, config, now, poisoned, written, task,
                   store_lock, stats_lock, proxyVars>>

\* the counters are updated under the statistics guard, which is dropped
StatStep(t) ==
    LET c == Stepped(t) IN
    /\ At(t, "stat")
    /\ stats' = ApplyUpd(stats, c.upd, c.n)
    /\ stats_lock' = StatsGuardDropped(t)
    /\ Continue(t, c)
    /\ UNCHANGED <<store, config, now, poisoned, written, task, store_lock, proxyVars>>

\* hit_rate and stats read the counters under the statistics guard
ReadStep(t) ==
    LET c == Stepped(t) IN
    /\ At(t, "read")
    /\ stats_lock' = StatsGuardDropped(t)
    /\ Continue(t, c)
    /\ UNCHANGED <<store, stats, config, now, poisoned, written, task,
                   store_lock, proxyVars>>

\* the store guard goes out of scope as the call returns
UnlockStore(t) ==
    /\ At(t, "unlock_store")
    /\ store_lock' = None
    /\ Continue(t, Stepped(t))
    /\ UNCHANGED <<store, stats, config, now, poisoned, written, task,
                   stats_lock, proxyVars>>

\* the steps of a thread that wait for nothing
Run(t) ==
    \/ MapStep(t)
    \/ StoreStep(t)
    \/ AccessStep(t)
    \/ StatStep(t)
    \/ ReadStep(t)
    \/ UnlockStore(t)

\* the store the callers share, just constructed: one entry at most, a TTL
\* of 0, and a clock with one tick left, after which every entry stored
\* before it is expired
InitConc ==
    /\ store = EmptyStore
    /\ stats = StatsDefault
    /\ config = [type |-> "memory", max_size |-> 1, expiration |-> 0]
    /\ now = MaxTime - 1
    /\ poisoned = [store |-> FALSE, stats |-> FALSE]
    /\ last = Call("new", None, None, Unit)
    /\ written = [k \in Keys |-> None]
    /\ task = "sleep"
    /\ pc = [t \in Threads |-> Idle]
    /\ store_lock = None
    /\ stats_lock = None
    /\ proxy_store = EmptyStore
    /\ handler = [r \in Requests |-> NoRequest]

NextConc ==
    \/ \E t \in Threads : \E call \in CallsOf(t) : Begin(t, call)
    \/ \E t \in Threads : LockStore(t)
    \/ \E t \in Threads : LockStats(t)
    \/ \E t \in Threads : MapStep(t)
    \/ \E t \in Threads : StoreStep(t)
    \/ \E t \in Threads : AccessStep(t)
    \/ \E t \in Threads : StatStep(t)
    \/ \E t \in Threads : ReadStep(t)
    \/ \E t \in Threads : UnlockStore(t)
    \/ Tick

SpecConc == InitConc /\ [][NextConc]_vars

\* fair scheduling: a thread that can run does run, and a thread that waits
\* for a mutex gets it if the mutex keeps becoming free
SpecConcFair ==
    /\ SpecConc
    /\ \A t \in Threads :
          WF_vars(Run(t)) /\ SF_vars(LockStore(t)) /\ SF_vars(LockStats(t))

\* ------------------------------------------------- the proxy of main.rs
\* rand::random_range(1..=1025), cut to its first ids, and the ids a path
\* may carry (a u32)
RandomIds == {1, 2}
PathIds == {0, 1, 2}

\* the names the upstream's bodies carry; a Pokemon is its id and its name
UpstreamNames == {"bulbasaur", "ivysaur"}

\* Pokemon::default()
PokemonDefault == [id |-> 0, name |-> ""]

\* u32::to_string: the decimal digits
Digits == <<"0", "1", "2", "3", "4", "5", "6", "7", "8", "9">>

RECURSIVE IdToString(_)
IdToString(n) ==
    IF n < 10 THEN Digits[n + 1]
    ELSE IdToString(n \div 10) \o Digits[(n % 10) + 1]

\* main.rs InmemoryCache::get: store.get(key.as_str()).cloned()
ProxyGet(s, key) == IF key \in DOMAIN s THEN {s[key]} ELSE {}

\* main.rs InmemoryCache::insert: store.insert(key.clone(), value)
ProxyInsert(s, key, value) ==
    [j \in DOMAIN s \cup {key} |-> IF j = key THEN value ELSE s[j]]

\* what get_pokemon(api_url, id) may come back with: Ok(pokemon) parsed from
\* a body of the upstream's /pokemon/{id}, or an Err (the request failed, the
\* status was no success, the body did not parse)
FetchResults(id) ==
    {[ok |-> TRUE, pokemon |-> {[id |-> id, name |-> n]}] :
        n \in UpstreamNames}
    \cup {[ok |-> FALSE, pokemon |-> {}]}

\* an Err arm that stores the placeholder it answers with
ErrArmCachesDefault(s, key) == ProxyInsert(s, key, PokemonDefault)

\* the Err arm of the handlers: the cache is not touched
ErrArm(s, key) == s

\* a request arrives: /random draws its id, /pokemon/{id} carries it
Receive(r, route, id) ==
    /\ handler[r].at \in {"idle", "done"}
    /\ handler' = [handler EXCEPT ![r] =
                      [NoRequest EXCEPT !.route = route, !.id = id,
                                        !.at = "get"]]
    /\ UNCHANGED <<proxy_store, cacheVars>>

\* app_state.cache.get(id.to_string()): on a hit the handler returns
\* (StatusCode::OK, Json(pokemon))
CacheGet(r) ==
    LET h == handler[r]
        result == ProxyGet(proxy_store, IdToString(h.id))
    IN  /\ h.at = "get"
        /\ handler' = [handler EXCEPT ![r] =
                          IF result # {}
                          THEN [h EXCEPT !.at = "done", !.status = 200,
                                         !.body = result]
                          ELSE [h EXCEPT !.at = "fetch"]]
        /\ UNCHANGED <<proxy_store, cacheVars>>

\* get_pokemon(api_url, id).await completes; on an Err the handler returns
\* (StatusCode::INTERNAL_SERVER_ERROR, Json(Pokemon::default()))
Fetch(r) ==
    LET h == handler[r] IN
    /\ h.at = "fetch"
    /\ \E res \in FetchResults(h.id) :
          IF res.ok
          THEN /\ handler' = [handler EXCEPT ![r] =
                                 [h EXCEPT !.at = "insert",
                                           !.contacted = TRUE,
                                           !.fetched = res.pokemon]]
               /\ UNCHANGED proxy_store
          ELSE /\ handler' = [handler EXCEPT ![r] =
                                 [h EXCEPT !.at = "done", !.contacted = TRUE,
                                           !.status = 500,
                                           !.body = {PokemonDefault}]]
               /\ proxy_store' = ErrArm(proxy_store, IdToString(h.id))
    /\ UNCHANGED cacheVars

\* the Ok arm: app_state.cache.insert(id.to_string(), pokemon.clone()), then
\* (StatusCode::OK, Json(pokemon))
CacheInsert(r) ==
    LET h == handler[r] IN
    /\ h.at = "insert"
    /\ \E pokemon \in h.fetched :
          proxy_store' = ProxyInsert(proxy_store, IdToString(h.id), pokemon)
    /\ handler' = [handler EXCEPT ![r] =
                      [h EXCEPT !.at = "done", !.status = 200,
                                !.body = h.fetched]]
    /\ UNCHANGED cacheVars

NextProxy ==
    \/ \E r \in Requests, id \in RandomIds : Receive(r, "random", id)
    \/ \E r \in Requests, id \in PathIds : Receive(r, "pokemon", id)
    \/ \E r \in Requests : CacheGet(r)
    \/ \E r \in Requests : Fetch(r)
    \/ \E r \in Requests : CacheInsert(r)

\* the proxy starts with its cache empty and no request in flight (it does
\* not construct the cache of cache.rs, which stays as constructed)
InitProxy ==
    /\ Init
    /\ config = [type |-> "memory", max_size |-> MaxCapacity,
                 expiration |-> MaxExpiration]

SpecProxy == InitProxy /\ [][NextProxy]_vars

TypeOK ==
    /\ DOMAIN store \subseteq Keys \ {""}
    /\ now \in 0..MaxTime
    /\ \A k \in DOMAIN store :
          /\ store[k].value \in Values
          /\ store[k].created_at \in 0..now
          /\ store[k].access_count >= 1
\* ------------------------------------------------ reading a step as a call
\* the step is a call of op: a call leaves the clock alone and records itself
Called(op) == now' = now /\ last'.op = op

\* an entry's age at the current clock reading
Age(k) == now - store[k].created_at

NonEmptyKeys == Keys \ {""}

\* C1: a successful insert(k, v) puts v under k, and a later get(k) returns
\* exactly that v as long as k is still stored (not evicted, removed, cleared)
\* with the value of its latest insert and its age is within the TTL.
C1_InsertThenGet ==
    [][ /\ (Called("insert") /\ last'.ret = "Ok")
            => /\ last'.key \in DOMAIN store'
               /\ written'[last'.key] = last'.value
        /\ \A k \in NonEmptyKeys :
              (/\ Called("get") /\ last'.key = k
               /\ k \in DOMAIN store
               /\ Age(k) <= config.expiration)
              => last'.ret = written[k] /\ last'.ret \in Values ]_vars

\* a get returned the value of the second insert of its key, other calls between
C1_Witness ==
    /\ last.op = "get" /\ last.ret = "B"
    /\ written[last.key] = "B"
    /\ stats.inserts >= 2 /\ stats.misses >= 1

\* C2: right after every insert that returns Ok the mapping holds at most
\* max_size entries, for every max_size including 0.
C2_SizeBounded ==
    (last.op = "insert" /\ last.ret = "Ok") => MapLen(store) <= config.max_size

\* C3: an insert of a new non-empty key into a mapping of exactly max_size
\* entries removes exactly one stored entry, stores the new one and leaves the
\* size at max_size.
C3_InsertAtCapacity ==
    [][ (/\ Called("insert") /\ last'.key \in NonEmptyKeys
         /\ last'.key \notin DOMAIN store
         /\ MapLen(store) = config.max_size)
        => /\ Cardinality(DOMAIN store \ DOMAIN store') = 1
           /\ last'.key \in DOMAIN store'
           /\ MapLen(store') = config.max_size ]_vars
\* C4: an evicting insert removes one entry, an entry with the earliest
\* created_at and, among those, the lowest access_count, and adds 1 to
\* removes; with capacity 2 and "1", "2", "3" inserted in that order at
\* increasing clock readings, "1" is gone, "2" and "3" are served while
\* within the TTL, and the size is 2.
EvictsOneLeastEntry ==
    (/\ Called("insert") /\ last'.ret = "Ok"
     /\ last'.key \notin DOMAIN store
     /\ MapLen(store) >= config.max_size /\ DOMAIN store # {})
    => \E victim \in DOMAIN store :
          /\ DOMAIN store' = (DOMAIN store \ {victim}) \cup {last'.key}
          /\ \A j \in DOMAIN store \ {victim} :
                /\ store'[j] = store[j]
                /\ \/ store[victim].created_at < store[j].created_at
                   \/ /\ store[victim].created_at = store[j].created_at
                      /\ store[victim].access_count <= store[j].access_count
          /\ stats'.removes = stats.removes + 1

\* "1" and "2" were inserted in that order, nothing but clock ticks since
ScenarioOneTwo ==
    /\ config.max_size = 2
    /\ last.op = "insert" /\ last.key = "2" /\ last.ret = "Ok"
    /\ DOMAIN store = {"1", "2"}
    /\ store["1"].access_count = 1 /\ store["2"].access_count = 1

ScenarioAfterThree ==
    /\ GetValue(store', "1", now') = None
    /\ Age("2") <= config.expiration
          => GetValue(store', "2", now') = written["2"]
    /\ GetValue(store', "3", now') = last'.value
    /\ MapLen(store') = 2

SameStats(fields) == \A f \in fields : stats'[f] = stats[f]

\* C5: get returns a value only for an entry whose age is at most the TTL; a
\* present entry older than the TTL is removed by get, which counts a miss and
\* returns nothing; an entry aged exactly the TTL is served.
C5_NoStaleValue ==
    [][ \A k \in NonEmptyKeys :
          (Called("get") /\ last'.key = k)
          => /\ last'.ret # None
                => k \in DOMAIN store /\ Age(k) <= config.expiration
             /\ (k \in DOMAIN store /\ Age(k) > config.expiration)
                => /\ store' = MapRemove(store, k)
                   /\ stats'.misses = stats.misses + 1
                   /\ last'.ret = None
             /\ (k \in DOMAIN store /\ Age(k) = config.expiration)
                => last'.ret = store[k].value ]_vars

\* an entry aged exactly a non-zero TTL has just been served
C5_Witness ==
    /\ last.op = "get" /\ last.ret \in Values
    /\ config.expiration >= 1
    /\ last.key \in DOMAIN store
    /\ Age(last.key) = config.expiration
    /\ stats.misses >= 1

\* what C6 says of get and of cleanup_expired for an entry older than the TTL
ExpiredHiddenAndSwept ==
    /\ \A k \in NonEmptyKeys :
          (/\ Called("get") /\ last'.key = k
           /\ k \in DOMAIN store /\ Age(k) > config.expiration)
          => last'.ret = None
    /\ Called("cleanup_expired")
          => \A k \in DOMAIN store :
                Age(k) > config.expiration => k \notin DOMAIN store'

\* C6: an entry older than the TTL is not returned by get and is removed by
\* cleanup_expired; size() is the number of entries in the mapping, and counts
\* such an entry until a get of its key or a cleanup_expired has removed it.
C6_ExpiredEntries ==
    [][ /\ ExpiredHiddenAndSwept
        /\ Called("size") => last'.ret = Cardinality(DOMAIN store) ]_vars

\* C6 as stated: size() does not count an entry older than the TTL (stated
\* for the stores of capacity 1 and more, whose size never passes max_size)
C6_ExpiredEntriesOriginal ==
    [][ /\ ExpiredHiddenAndSwept
        /\ (Called("size") /\ config.max_size >= 1)
              => last'.ret = Cardinality({k \in DOMAIN store :
                                             Age(k) <= config.expiration})
       ]_vars

\* a sweep removed an entry that had been read and then outlived the TTL
C6_Witness ==
    /\ last.op = "cleanup_expired"
    /\ stats.hits >= 1 /\ stats.inserts = 1 /\ stats.removes = 1
    /\ stats.cleanups = 1 /\ stats.misses = 0
    /\ store = EmptyStore

\* C7: cleanup_expired removes exactly the entries older than the TTL and
\* leaves the others as they are; cleanups grows by 1 iff something was
\* removed, removes grows by the number removed, no other counter moves.
C7_CleanupExact ==
    [][ Called("cleanup_expired")
        => LET gone == {k \in DOMAIN store : Age(k) > config.expiration}
           IN  /\ DOMAIN store' = DOMAIN store \ gone
               /\ \A k \in DOMAIN store' : store'[k] = store[k]
               /\ stats'.cleanups = stats.cleanups + (IF gone = {} THEN 0 ELSE 1)
               /\ stats'.removes = stats.removes + Cardinality(gone)
               /\ SameStats({"hits", "misses", "inserts"}) ]_vars

\* one sweep removed an expired entry and kept a live one
C7_Witness ==
    /\ last.op = "cleanup_expired"
    /\ stats = [hits |-> 0, misses |-> 0, inserts |-> 2, removes |-> 1,
                cleanups |-> 1]
    /\ MapLen(store) = 1
    /\ \E k \in DOMAIN store : Age(k) <= config.expiration

\* C8: a get of a non-empty key adds 1 to exactly one of hits and misses: to
\* hits iff it returns a value (the entry is present and unexpired, and its
\* access_count grows by 1), to misses iff it returns nothing; on a fresh
\* store one get of a missing key leaves misses = 1 and hits = 0.
C8_HitOrMiss ==
    [][ \A k \in NonEmptyKeys :
          (Called("get") /\ last'.key = k)
          => /\ SameStats({"inserts", "removes", "cleanups"})
             /\ last'.ret # None
                => /\ stats'.hits = stats.hits + 1
                   /\ stats'.misses = stats.misses
                   /\ k \in DOMAIN store /\ Age(k) <= config.expiration
                   /\ store' = [store EXCEPT ![k].access_count = @ + 1]
             /\ last'.ret = None
                => /\ stats'.misses = stats.misses + 1
                   /\ stats'.hits = stats.hits
                   /\ k \notin DOMAIN store \/ Age(k) > config.expiration
             /\ (store = EmptyStore /\ stats = StatsDefault)
                => /\ last'.ret = None
                   /\ stats' = [StatsDefault EXCEPT !.misses = 1] ]_vars

\* a get that hit, in a run that also had a miss
C8_Witness ==
    /\ last.op = "get" /\ last.ret \in Values
    /\ stats.hits >= 1 /\ stats.misses >= 1
    /\ store[last.key].access_count >= 2

\* C9: with the empty key insert returns InvalidKey, get and remove return
\* nothing, and the mapping and the five counters stay as they were.
C9_EmptyKeyNoEffect ==
    [][ (now' = now /\ last'.op \in {"insert", "get", "remove"}
         /\ last'.key = "")
        => /\ last'.ret = (IF last'.op = "insert" THEN "InvalidKey" ELSE None)
           /\ store' = store
           /\ stats' = stats ]_vars

\* an empty-key insert was refused by a store that holds entries
C9_Witness ==
    /\ last.op = "insert" /\ last.key = "" /\ last.ret = "InvalidKey"
    /\ MapLen(store) >= 1
    /\ stats.hits >= 1

\* C10: a successful insert leaves under its key a fresh entry (the new
\* value, created_at the time of the insert, access_count 1 whatever the
\* prior entry held) and adds exactly 1 to inserts, new key or not.
C10_InsertFresh ==
    [][ (Called("insert") /\ last'.ret = "Ok")
        => /\ last'.key \in DOMAIN store'
           /\ store'[last'.key] = [value |-> last'.value,
                                   created_at |-> now',
                                   access_count |-> 1]
           /\ stats'.inserts = stats.inserts + 1 ]_vars

\* an entry that had been read was overwritten at a later clock reading
C10_Witness ==
    /\ last.op = "insert" /\ last.ret = "Ok"
    /\ stats = [hits |-> 1, misses |-> 0, inserts |-> 2, removes |-> 0,
                cleanups |-> 0]
    /\ DOMAIN store = {last.key}
    /\ store[last.key].created_at >= 1
\* C11: remove of a present non-empty key deletes that entry and no other,
\* adds exactly 1 to removes and returns the stored value; remove of an absent
\* key returns nothing and changes neither the mapping nor any counter.
C11_Remove ==
    [][ \A k \in NonEmptyKeys :
          (Called("remove") /\ last'.key = k)
          => /\ k \in DOMAIN store
                => /\ DOMAIN store' = DOMAIN store \ {k}
                   /\ \A j \in DOMAIN store' : store'[j] = store[j]
                   /\ stats' = [stats EXCEPT !.removes = @ + 1]
                   /\ last'.ret = store[k].value
             /\ k \notin DOMAIN store
                => /\ last'.ret = None
                   /\ store' = store
                   /\ stats' = stats ]_vars

\* a remove returned the value of one of two stored entries
C11_Witness ==
    /\ last.op = "remove" /\ last.ret \in Values
    /\ MapLen(store) = 1
    /\ stats.inserts = 2 /\ stats.removes = 1

\* C12: after clear the mapping is empty, the five counters are zero and the
\* hit rate is 0.0.
C12_Clear ==
    [][ Called("clear")
        => /\ DOMAIN store' = {}
           /\ \A f \in {"hits", "misses", "inserts", "removes", "cleanups"} :
                 stats'[f] = 0
           /\ CacheStatsHitRate(stats') = Zero ]_vars

\* a clear has run at a later clock reading than the construction
C12_Witness ==
    /\ last.op = "clear"
    /\ stats = StatsDefault /\ store = EmptyStore
    /\ now >= 1

\* C13: hit_rate is 0 while hits + misses = 0 and hits / (hits + misses)
\* otherwise, a number between 0 and 1.
C13_HitRate ==
    [][ Called("hit_rate")
        => LET r == last'.ret
               total == stats.hits + stats.misses
           IN  /\ total = 0 => r = Zero
               /\ r.den > 0 /\ 0 <= r.num /\ r.num <= r.den
               /\ r.num * total = stats.hits * r.den ]_vars

\* hit_rate returned 1/2
C13_Witness ==
    /\ last.op = "hit_rate"
    /\ last.ret = [num |-> 1, den |-> 2]
    /\ stats.hits = 1 /\ stats.misses = 1

\* C14: outside clear, removes grows in every step by the number of entries
\* the step deleted from the mapping, whether by remove, by eviction or by
\* expiration in get or in cleanup_expired (stated for the stores of capacity
\* 1 and more).
C14_RemovesCountsDeletions ==
    [][ (~Called("clear") /\ config.max_size >= 1)
        => stats'.removes - stats.removes
              = Cardinality(DOMAIN store \ DOMAIN store') ]_vars

\* C15: no counter decreases in a step other than clear.
C15_CountersMonotonic ==
    [][ ~Called("clear")
        => \A f \in {"hits", "misses", "inserts", "removes", "cleanups"} :
              stats'[f] >= stats[f] ]_vars

\* a sweep counted its removal on top of an earlier remove
C15_Witness ==
    /\ last.op = "cleanup_expired"
    /\ stats.removes = 2 /\ stats.cleanups = 1 /\ stats.inserts = 2
\* a call that takes the store lock: the key, if any, is not empty
TakesStoreLock ==
    /\ now' = now
    /\ \/ last'.op \in {"insert", "get", "remove"} /\ last'.key # ""
       \/ last'.op \in {"size", "clear", "cleanup_expired"}

\* what the call does to the mapping and returns when the store lock is there
MappingStepDone ==
    LET k == last'.key
        live == k \in DOMAIN store /\ Age(k) <= config.expiration
    IN  /\ last'.op = "get" /\ live
           => /\ last'.ret \in {store[k].value, "panic"}
              /\ store' = [store EXCEPT ![k].access_count = @ + 1]
        /\ last'.op = "get" /\ ~live
           => last'.ret = None /\ DOMAIN store' = DOMAIN store \ {k}
        /\ last'.op = "insert"
           => /\ last'.ret = "Ok"
              /\ k \in DOMAIN store'
              /\ store'[k] = [value |-> last'.value, created_at |-> now,
                              access_count |-> 1]
        /\ last'.op = "remove"
           => /\ DOMAIN store' = DOMAIN store \ {k}
              /\ last'.ret = (IF k \in DOMAIN store THEN store[k].value
                              ELSE None)
        /\ last'.op = "clear" => DOMAIN store' = {} /\ last'.ret = Unit
        /\ last'.op = "size" => last'.ret = Cardinality(DOMAIN store)
        /\ last'.op = "cleanup_expired"
           => /\ last'.ret = Unit
              /\ DOMAIN store'
                   = {j \in DOMAIN store : Age(j) <= config.expiration}

\* C16: with the store mutex poisoned, insert returns LockError, get and
\* remove return nothing, size returns 0, clear and cleanup_expired return,
\* none panics, and the mapping and the counters stay as they were; with the
\* statistics mutex alone poisoned, hit_rate returns 0.0 and every mapping
\* operation does its mapping step and returns its normal result with the
\* counters as they were.
C16_LockFailure ==
    [][ /\ (poisoned.store /\ TakesStoreLock)
           => /\ last'.ret = (CASE last'.op = "insert" -> "LockError"
                                [] last'.op \in {"get", "remove"} -> None
                                [] last'.op = "size" -> 0
                                [] OTHER -> Unit)
              /\ store' = store
              /\ stats' = stats
              /\ poisoned' = poisoned
        /\ (poisoned.stats /\ ~poisoned.store)
           => /\ Called("hit_rate") => last'.ret = Zero
              /\ TakesStoreLock => stats' = stats /\ MappingStepDone ]_vars

\* an insert stored its entry and counted nothing, the statistics mutex
\* being poisoned
C16_Witness ==
    /\ poisoned.stats /\ ~poisoned.store
    /\ last.op = "insert" /\ last.ret = "Ok"
    /\ last.key \in DOMAIN store
    /\ stats.inserts = 0

\* an insert was refused with LockError, the store mutex being poisoned
C16_WitnessStore ==
    /\ poisoned.store
    /\ last.op = "insert" /\ last.ret = "LockError"
\* an entry older than the TTL is stored under k
StoredExpired(k) ==
    k \in DOMAIN store /\ Age(k) > config.expiration

\* C18: the periodic task stays in its loop, one cleanup_expired per interval
\* tick, and so every entry older than the TTL is eventually out of the
\* mapping, whatever the callers do.
C18_TaskSweepsForever ==
    /\ [](task \in {"sleep", "run"})
    /\ [][ task' # task
            => \/ task = "sleep" /\ task' = "run" /\ store' = store
               \/ /\ task = "run" /\ task' = "sleep"
                  /\ last'.op = "cleanup_expired"
                  /\ \A k \in DOMAIN store : ~StoredExpired(k)' ]_vars
    /\ \A k \in TaskKeys : StoredExpired(k) ~> ~StoredExpired(k)

\* the task swept an expired entry no caller had touched since its insert
C18_Witness ==
    /\ task = "sleep"
    /\ last.op = "cleanup_expired"
    /\ stats = [hits |-> 0, misses |-> 0, inserts |-> 1, removes |-> 1,
                cleanups |-> 1]
    /\ store = EmptyStore
\* the thread waits for a mutex another thread holds
Blocked(t) ==
    \/ At(t, "lock_store") /\ store_lock # None
    \/ At(t, "lock_stats") /\ stats_lock # None

C20_NoLockHeldOverTheOther ==
    \A t \in Threads :
       /\ (At(t, "lock_store") \/ At(t, "lock_stats"))
             => store_lock # t /\ stats_lock # t
       /\ At(t, "stat") => store_lock # t

\* C20: the two locks are taken in one order: a thread that acquires or
\* waits for the store lock holds no lock; get, insert, remove, clear,
\* eviction and cleanup acquire the statistics lock while they hold the store
\* lock, hold it for the counters' update alone and give it back before the
\* store lock; hit_rate and stats take the statistics lock alone.
C20_LockOrder ==
    \A t \in Threads :
       /\ At(t, "lock_store") => store_lock # t /\ stats_lock # t
       /\ stats_lock = t => At(t, "stat") \/ At(t, "read")
       /\ (At(t, "lock_stats") \/ stats_lock = t)
             => (store_lock = t) = (pc[t].op \notin {"hit_rate", "stats"})
       /\ store_lock = t
             => InCall(t) /\ pc[t].op \notin {"hit_rate", "stats"}

\* an evicting insert holds both locks for its second update, removes
\* already counted, while the periodic task waits for the store
C20_Witness ==
    /\ store_lock = "t1" /\ stats_lock = "t1"
    /\ pc["t1"].op = "insert" /\ pc["t1"].upd = "inserts"
    /\ stats.removes = 1 /\ stats.inserts = 1
    /\ At("task", "lock_store")
\* what a store of capacity max_size and TTL ttl, whatever its kind, does
\* with a call at clock reading t when it holds the mapping s and the
\* counters st: the mappings, counters and results it may end with
RefOlder(s, t, ttl) == {j \in DOMAIN s : t - s[j].created_at > ttl}

RefLeast(s) ==
    {j \in DOMAIN s :
        \A i \in DOMAIN s :
           \/ s[j].created_at < s[i].created_at
           \/ /\ s[j].created_at = s[i].created_at
              /\ s[j].access_count <= s[i].access_count}

RefOut(s, st, ret) == [store |-> s, stats |-> st, ret |-> ret]

RefWithout(s, gone) == [j \in DOMAIN s \ gone |-> s[j]]

RefWith(s, k, v, t) ==
    [j \in DOMAIN s \cup {k} |->
        IF j = k THEN [value |-> v, created_at |-> t, access_count |-> 1]
        ELSE s[j]]

RefCall(c, s, st, max_size, ttl, t) ==
    LET k == c.key IN
    CASE c.op = "get" ->
           IF k = "" THEN {RefOut(s, st, None)}
           ELSE IF k \notin DOMAIN s
           THEN {RefOut(s, [st EXCEPT !.misses = @ + 1], None)}
           ELSE IF k \in RefOlder(s, t, ttl)
           THEN {RefOut(RefWithout(s, {k}), [st EXCEPT !.misses = @ + 1],
                        None)}
           ELSE {RefOut([s EXCEPT ![k].access_count = @ + 1],
                        [st EXCEPT !.hits = @ + 1], s[k].value)}
      [] c.op = "insert" ->
           IF k = "" THEN {RefOut(s, st, "InvalidKey")}
           ELSE IF /\ Cardinality(DOMAIN s) >= max_size
                   /\ k \notin DOMAIN s /\ DOMAIN s # {}
           THEN {RefOut(RefWith(RefWithout(s, {victim}), k, c.value, t),
                        [st EXCEPT !.removes = @ + 1, !.inserts = @ + 1],
                        "Ok") : victim \in RefLeast(s)}
           ELSE {RefOut(RefWith(s, k, c.value, t),
                        [st EXCEPT !.inserts = @ + 1], "Ok")}
      [] c.op = "remove" ->
           IF k = "" \/ k \notin DOMAIN s THEN {RefOut(s, st, None)}
           ELSE {RefOut(RefWithout(s, {k}), [st EXCEPT !.removes = @ + 1],
                        s[k].value)}
      [] c.op = "clear" ->
           {RefOut(RefWithout(s, DOMAIN s),
                   [hits |-> 0, misses |-> 0, inserts |-> 0, removes |-> 0,
                    cleanups |-> 0], Unit)}
      [] c.op = "size" -> {RefOut(s, st, Cardinality(DOMAIN s))}
      [] c.op = "cleanup_expired" ->
           LET gone == RefOlder(s, t, ttl) IN
           {RefOut(RefWithout(s, gone),
                   IF gone = {} THEN st
                   ELSE [st EXCEPT !.cleanups = @ + 1,
                                   !.removes = @ + Cardinality(gone)],
                   Unit)}
      [] OTHER -> {}

\* C19: the configured kind is advisory: every get, insert, remove, clear,
\* size and cleanup_expired call of a store of any kind ends with a mapping,
\* counters and a result that depend on the call, the mapping, the counters,
\* the clock, max_size and the TTL alone, those of a store of kind "memory";
\* is_enabled changes nothing and returns true exactly for the kind "memory".
C19_KindAdvisory ==
    [][ /\ (now' = now /\ last'.op \in {"get", "insert", "remove", "clear",
                                        "size", "cleanup_expired"})
           => RefOut(store', stats', last'.ret)
                 \in RefCall(last', store, stats, config.max_size,
                             config.expiration, now)
        /\ Called("is_enabled")
           => /\ last'.ret = (config.type = "memory")
              /\ store' = store /\ stats' = stats
        /\ config' = config ]_vars

\* a store of another kind says it is not enabled, having served a hit and
\* evicted an entry
C19_Witness ==
    /\ config.type # "memory"
    /\ last.op = "is_enabled" /\ last.ret = FALSE
    /\ stats.hits >= 1 /\ stats.removes >= 1 /\ stats.inserts >= 2
    /\ MapLen(store) >= 1
\* the entries under the keys of others are in the mapping after the step
\* as they were before it
Untouched(others) ==
    \A j \in others : j \in DOMAIN store' /\ store'[j] = store[j]

\* C21: an insert removes an entry only if its key is new and the mapping is
\* at capacity: an insert of a present key, or below capacity, removes
\* nothing, leaves every other entry as it was and leaves removes alone; get
\* and remove leave every entry but their own as it was, and cleanup_expired
\* every entry within the TTL.
C21_EvictionOnlyAtCapacity ==
    [][ /\ \A k \in NonEmptyKeys :
              (/\ Called("insert") /\ last'.key = k
               /\ k \in DOMAIN store \/ MapLen(store) < config.max_size)
              => /\ DOMAIN store' = DOMAIN store \cup {k}
                 /\ Untouched(DOMAIN store \ {k})
                 /\ stats'.removes = stats.removes
        /\ (Called("insert") /\ DOMAIN store \ DOMAIN store' # {})
              => /\ last'.key \notin DOMAIN store
                 /\ MapLen(store) >= config.max_size
        /\ (Called("get") \/ Called("remove"))
              => Untouched(DOMAIN store \ {last'.key})
        /\ Called("cleanup_expired")
              => Untouched({j \in DOMAIN store : Age(j) <= config.expiration})
       ]_vars

\* a present key was inserted again into a full mapping of two entries
C21_Witness ==
    /\ last.op = "insert" /\ last.ret = "Ok"
    /\ config.max_size = 2 /\ MapLen(store) = 2
    /\ stats.inserts = 3 /\ stats.removes = 0
ReleasesStore(t) == store_lock = t /\ store_lock' = None

\* C23: the counters and the mapping change only in steps of the thread that
\* holds the store lock, the counters under the statistics lock it holds as
\* well; and when a get, insert, remove, clear or cleanup_expired gives the
\* store lock back, the mapping and the counters are those the call run alone
\* makes of the mapping and counters it found when it took the lock (s0,
\* st0), with the clock reading it took (t0): the states seen while the store
\* lock is free are those of the calls run one at a time in the order in
\* which they took the lock. A call that only reads the mapping gives it
\* back as found.
C23_SerialInLockOrder ==
    [][ /\ stats' # stats
           => /\ store_lock # None /\ store_lock' = store_lock
              /\ stats_lock = store_lock
        /\ store' # store
           => store_lock # None /\ store_lock' = store_lock
        /\ \A t \in Threads :
              ReleasesStore(t)
              => LET c == pc[t] IN
                 IF c.op \in {"get", "insert", "remove", "clear",
                              "cleanup_expired"}
                 THEN \E o \in RefCall(c, c.s0, c.st0, config.max_size,
                                       config.expiration, c.t0) :
                         o.store = store /\ o.stats = stats
                 ELSE store = c.s0 /\ stats = c.st0 ]_vars

\* a hit_rate or stats reader holds the statistics lock while the periodic
\* task is between its removal of an expired entry and its count of it: the
\* reader sees an insert counted, no removal, and the mapping is empty
C23_Witness ==
    /\ store_lock = "task" /\ At("task", "lock_stats")
    /\ stats_lock = "t2" /\ At("t2", "read")
    /\ pc["task"].s0 # store /\ store = EmptyStore
    /\ stats.inserts = 1 /\ stats.removes = 0
\* C24: whenever no thread holds the store lock (and the statistics mutex
\* has not failed), the entries in the mapping and the removals counted are
\* together at most the inserts counted: size + removes <= inserts.
C24_Accounting ==
    (store_lock = None /\ ~poisoned.stats)
    => Cardinality(DOMAIN store) + stats.removes <= stats.inserts

\* two callers' inserts have run, the second evicted the first's entry, and
\* every call has returned
C24_Witness ==
    /\ store_lock = None /\ stats_lock = None
    /\ \A t \in Threads : ~InCall(t)
    /\ stats.inserts = 2 /\ stats.removes = 1
    /\ Cardinality(DOMAIN store) = 1
\* C25: an entry older than the TTL that is still in the mapping is there
\* for contains_key (true), for keys (its key is listed) and for remove (the
\* stored value is returned, removes grows by 1, the entry goes); neither
\* contains_key nor keys takes it out.
C25_ExpiredStillPresent ==
    [][ \A k \in NonEmptyKeys :
          StoredExpired(k)
          => /\ (Called("contains_key") /\ last'.key = k)
                => last'.ret = TRUE /\ store' = store
             /\ Called("keys")
                => k \in last'.ret /\ store' = store
             /\ (Called("remove") /\ last'.key = k)
                => /\ last'.ret = store[k].value
                   /\ stats'.removes = stats.removes + 1
                   /\ DOMAIN store' = DOMAIN store \ {k} ]_vars

\* contains_key said true of an entry older than a TTL of 1 or more
C25_Witness ==
    /\ last.op = "contains_key" /\ last.ret = TRUE
    /\ config.expiration >= 1
    /\ StoredExpired(last.key)

\* C26: size, hit_rate, stats, contains_key, keys, is_enabled and config
\* leave the mapping and the five counters as they are; keys returns the set
\* of the mapping's keys, contains_key(k) whether k is in it, stats the
\* counters.
C26_QueriesReadOnly ==
    [][ (now' = now /\ last'.op \in {"size", "hit_rate", "stats",
                                     "contains_key", "keys", "is_enabled",
                                     "config"})
        => /\ store' = store
           /\ stats' = stats
           /\ last'.op = "keys" => last'.ret = DOMAIN store
           /\ last'.op = "contains_key"
                 => last'.ret = (last'.key \in DOMAIN store)
           /\ last'.op = "stats"
                 => \A f \in {"hits", "misses", "inserts", "removes",
                              "cleanups"} : last'.ret[f] = stats[f] ]_vars

\* stats returned counters that tell a hit from two misses
C26_Witness ==
    /\ last.op = "stats"
    /\ last.ret.hits = 1 /\ last.ret.misses = 2
    /\ stats.hits = 1 /\ stats.misses = 2
    /\ MapLen(store) >= 1
\* the handler of r answers in this step
Answers(r) == handler[r].at # "done" /\ handler'[r].at = "done"

\* C27: the proxy's cache changes only by the insert of a handler that has
\* fetched its id from the upstream, and takes that id's fetched body under
\* that id's key; a failed fetch is answered 500 with the default Pokemon and
\* leaves the cache as it is; so no cached value is the default Pokemon, and
\* a hit is answered 200 with the cached value, the upstream not contacted.
C27_CacheHoldsFetchedOnly ==
    /\ [](\A key \in DOMAIN proxy_store :
             /\ proxy_store[key] # PokemonDefault
             /\ \E id \in PathIds :
                   IdToString(id) = key /\ proxy_store[key].id = id)
    /\ [][ /\ proxy_store' # proxy_store
              => \E r \in Requests :
                    /\ handler[r].at = "insert" /\ handler[r].contacted
                    /\ Answers(r) /\ handler'[r].status = 200
                    /\ handler'[r].body = handler[r].fetched
                    /\ \E p \in handler[r].fetched :
                          /\ p.id = handler[r].id
                          /\ proxy_store'
                               = [j \in DOMAIN proxy_store
                                         \cup {IdToString(p.id)} |->
                                     IF j = IdToString(p.id) THEN p
                                     ELSE proxy_store[j]]
           /\ \A r \in Requests :
                 Answers(r)
                 => /\ handler'[r].status \in {200, 500}
                    /\ handler'[r].status = 500
                          => /\ handler[r].at = "fetch"
                             /\ handler'[r].body = {PokemonDefault}
                             /\ proxy_store' = proxy_store
                    /\ handler[r].at = "get"
                          => /\ handler'[r].status = 200
                             /\ ~handler'[r].contacted
                             /\ IdToString(handler[r].id) \in DOMAIN proxy_store
                             /\ handler'[r].body
                                  = {proxy_store[IdToString(handler[r].id)]}
                             /\ PokemonDefault \notin handler'[r].body
         ]_vars

\* one request was answered 500 for an id that another, which did not
\* contact the upstream, was answered from the cache
C27_Witness ==
    /\ handler["r1"].at = "done" /\ handler["r1"].status = 500
    /\ handler["r2"].at = "done" /\ handler["r2"].status = 200
    /\ ~handler["r2"].contacted
    /\ handler["r1"].id = handler["r2"].id
    /\ handler["r1"].route = "random" /\ handler["r2"].route = "pokemon"
====
